---- MODULE Spec2Model ----
(***************************************************************************)
(* Model of daily-log.py, the incremental updater of the USC DPS crime     *)
(* log archive (usc_crime_logs.csv / usc_crime_logs.json).                 *)
(*                                                                         *)
(* Text is a sequence of tokens: every digit, "/", ":" and " " is a token  *)
(* of its own, any other word is one opaque token.  A calendar date is a   *)
(* triple <<year, month, day>>; Python's None is NoDate for dates and      *)
(* NoneCell for a table cell the PDF extractor left empty.                 *)
(***************************************************************************)
EXTENDS Integers, Sequences, FiniteSets

\* ------------------------------------------------------------------ bounds
MaxArchive == 2     \* rows of the archive file a behaviour starts with
MaxAhead == 1       \* how many days after EARLIEST_DATE "today" may be
MaxRuns == 2        \* successive runs of backfill_incremental (SpecRuns)

\* ------------------------------------------------------------- text tokens
DigitTok == <<"0", "1", "2", "3", "4", "5", "6", "7", "8", "9">>

IsDigit(t) == \E n \in 1..10 : DigitTok[n] = t

DigitVal(t) == (CHOOSE n \in 1..10 : DigitTok[n] = t) - 1

RECURSIVE ToInt(_)
\* int(s) of a run of digit tokens
ToInt(s) ==
  IF s = <<>> THEN 0
  ELSE 10 * ToInt(SubSeq(s, 1, Len(s) - 1)) + DigitVal(s[Len(s)])

RECURSIVE ToDigits(_)
\* str(n) for n >= 0
ToDigits(n) ==
  IF n < 10 THEN <<DigitTok[n + 1]>>
  ELSE ToDigits(n \div 10) \o <<DigitTok[(n % 10) + 1]>>

\* "{:02d}" for 0 <= n
Pad2(n) == IF n < 10 THEN <<"0">> \o ToDigits(n) ELSE ToDigits(n)

IsSpace(t) == t = " "

RECURSIVE LStrip(_)
LStrip(s) == IF s # <<>> /\ IsSpace(s[1]) THEN LStrip(Tail(s)) ELSE s

RECURSIVE RStrip(_)
RStrip(s) ==
  IF s # <<>> /\ IsSpace(s[Len(s)]) THEN RStrip(SubSeq(s, 1, Len(s) - 1)) ELSE s

\* str.strip()
Strip(s) == LStrip(RStrip(s))

\* ------------------------------------------------------------------- dates
NoDate == <<>>

IsLeap(y) == (y % 4 = 0 /\ y % 100 # 0) \/ y % 400 = 0

DaysInMonth(y, m) ==
  IF m = 2 THEN (IF IsLeap(y) THEN 29 ELSE 28)
  ELSE IF m \in {4, 6, 9, 11} THEN 30 ELSE 31

\* datetime.date(y, m, d): the date, or NoDate where Python raises ValueError
MkDate(y, m, d) ==
  IF y >= 1 /\ y <= 9999 /\ m >= 1 /\ m <= 12 /\ d >= 1 /\ d <= DaysInMonth(y, m)
  THEN <<y, m, d>> ELSE NoDate

\* a < b on dates
DateLT(a, b) ==
  \/ a[1] < b[1]
  \/ a[1] = b[1] /\ a[2] < b[2]
  \/ a[1] = b[1] /\ a[2] = b[2] /\ a[3] < b[3]

DateLE(a, b) == a = b \/ DateLT(a, b)

\* d + timedelta(days=1)
NextDay(d) ==
  IF d[3] < DaysInMonth(d[1], d[2]) THEN <<d[1], d[2], d[3] + 1>>
  ELSE IF d[2] < 12 THEN <<d[1], d[2] + 1, 1>>
  ELSE <<d[1] + 1, 1, 1>>

RECURSIVE PlusDays(_, _)
PlusDays(d, n) == IF n = 0 THEN d ELSE PlusDays(NextDay(d), n - 1)

\* ----------------------------------------------------------- configuration
EARLIEST_DATE == <<2023, 12, 4>>

BASE_URL_PREFIX == "https://dps.usc.edu/wp-content/uploads/"

Txt(w) == <<w>>

NoneCell == <<"<None>">>    \* a cell pdfplumber returns as None

\* BASE_URL.format(year, month, mmddyy) for the day d
Url(d) ==
  <<BASE_URL_PREFIX>> \o ToDigits(d[1]) \o <<"/">> \o Pad2(d[2]) \o <<"/">>
    \o Pad2(d[2]) \o Pad2(d[3]) \o Pad2(d[1] % 100) \o <<".pdf">>

HEADERS ==
  << Txt("Date Reported"), Txt("Event #"), Txt("Case #"),
     Txt("Offense"), Txt("Initial Incident"), Txt("Final Incident"),
     Txt("Date From"), Txt("Date To"), Txt("Location"), Txt("Disposition"),
     Txt("URL") >>

\* 0-based column indexes, as in the source; row[IDX + 1] in a 1-based Seq
IDX_DATE_REPORTED == 0
IDX_EVENT == 1
IDX_DATE_FROM == 6
IDX_DATE_TO == 7

\* ------------------------------------------------------------- date parser
\* the number of digit tokens of s from position i on, at most max
DigitRun(s, i, max) ==
  CHOOSE k \in 0..max :
    /\ \A j \in 0..(k - 1) : i + j <= Len(s) /\ IsDigit(s[i + j])
    /\ k = max \/ i + k > Len(s) \/ ~IsDigit(s[i + k])

\* k digits at position i are followed by "/"
SlashAfter(s, i, k) ==
  IF k >= 1 /\ i + k <= Len(s) /\ s[i + k] = "/" THEN k ELSE 0

\* \d{1,2}/ at position i: the number of digits, 0 when there is no match
DigitsSlash(s, i) == SlashAfter(s, i, DigitRun(s, i, 2))

\* the lengths <<a, b, c>> of the three digit groups of a match, or <<>>
Groups(a, b, c) == IF a > 0 /\ b > 0 /\ c >= 2 THEN <<a, b, c>> ELSE <<>>

MatchYear(s, i, a, b) ==
  Groups(a, b, IF b = 0 THEN 0 ELSE DigitRun(s, i + a + b + 2, 4))

MatchDay(s, i, a) ==
  MatchYear(s, i, a, IF a = 0 THEN 0 ELSE DigitsSlash(s, i + a + 1))

\* DATE_RE = (\d{1,2}/\d{1,2}/\d{2,4}) matched at position i (greedy)
MatchAt(s, i) == MatchDay(s, i, DigitsSlash(s, i))

Leftmost(hits) ==
  IF hits = {} THEN 0 ELSE CHOOSE i \in hits : \A j \in hits : i <= j

\* DATE_RE.search(s): the position of the leftmost match, 0 when there is none
DateReSearch(s) == Leftmost({i \in 1..Len(s) : MatchAt(s, i) # <<>>})

Matched(s, i, m) == SubSeq(s, i, i + m[1] + m[2] + m[3] + 1)

\* m.group(1) of the match at position i
Group1(s, i) == Matched(s, i, MatchAt(s, i))

\* the year of "%y" (two digits, POSIX pivot 69) and of "%Y"
StrptimeYear(ylen, yy) ==
  IF ylen = 4 THEN yy ELSE IF yy <= 68 THEN 2000 + yy ELSE 1900 + yy

StrptimeParts(s, ylen, m) ==
  IF m = <<>> \/ m[3] # ylen \/ m[1] + m[2] + m[3] + 2 # Len(s) THEN NoDate
  ELSE MkDate(StrptimeYear(ylen, ToInt(SubSeq(s, m[1] + m[2] + 3, Len(s)))),
              ToInt(SubSeq(s, 1, m[1])),
              ToInt(SubSeq(s, m[1] + 2, m[1] + m[2] + 1)))

\* datetime.strptime(s, "%m/%d/%y" | "%m/%d/%Y").date(), ylen = 2 | 4:
\* the whole of s must be month/day/year with a year of exactly ylen digits
Strptime(s, ylen) ==
  StrptimeParts(s, ylen, IF s = <<>> THEN <<>> ELSE MatchAt(s, 1))

\* mm, dd, yyyy = g.split("/"); two-digit years become 2000 + yy
FallbackParts(g, m) ==
  MkDate(IF m[3] = 2 THEN 2000 + ToInt(SubSeq(g, m[1] + m[2] + 3, Len(g)))
         ELSE ToInt(SubSeq(g, m[1] + m[2] + 3, Len(g))),
         ToInt(SubSeq(g, 1, m[1])),
         ToInt(SubSeq(g, m[1] + 2, m[1] + m[2] + 1)))

FallbackGroup(g) == FallbackParts(g, MatchAt(g, 1))

FallbackAt(s, i) == IF i = 0 THEN NoDate ELSE FallbackGroup(Group1(s, i))

\* the lenient fallback of parse_mmddyy_or_yyyy
RegexFallback(s) == FallbackAt(s, DateReSearch(s))

\* the first of a, b, c that is a date
FirstDate(a, b, c) == IF a # NoDate THEN a ELSE IF b # NoDate THEN b ELSE c

ParseStripped(s) == FirstDate(Strptime(s, 2), Strptime(s, 4), RegexFallback(s))

parse_mmddyy_or_yyyy(s) == ParseStripped(Strip(s))

ParseAt(s, i) == IF i = 0 THEN NoDate ELSE parse_mmddyy_or_yyyy(Group1(s, i))

parse_any_date_field(s) ==
  IF s = <<>> THEN NoDate ELSE ParseAt(s, DateReSearch(s))

\* ------------------------------------------------- texts, rows and tables
T1203yy == <<"1", "2", "/", "0", "3", "/", "2", "3">>
T1204yy == <<" ", "1", "2", "/", "0", "4", "/", "2", "3">>
T1204yyyy == <<"1", "2", "/", "0", "4", "/", "2", "0", "2", "3">>
T1204time ==
  <<"1", "2", "/", "0", "4", "/", "2", "0", "2", "3", " ", "0", "9", ":", "3", "0">>
T125yy == <<"1", "2", "/", "5", "/", "2", "3">>

\* rows an archive file may hold when a behaviour starts: a full row, a row
\* with a twelfth field and no Date Reported, a one-field row, a blank line
ArchiveRowSamples ==
  { << T1203yy, Txt("E1"), Txt("C1"), Txt("THEFT"), <<>>, <<>>, T1203yy, T1203yy,
       Txt("LOT 1"), Txt("Open"), Url(<<2023, 12, 3>>) >>,
    << Txt("n/a"), Txt("E9"), <<>>, Txt("FRAUD"), <<>>, <<>>, T1204yyyy, <<>>,
       <<>>, <<>>, Txt("u"), Txt("extra") >>,
    << Txt("note") >>,
    << >> }

\* the table of the first sample PDF: header row, one row with an Event #,
\* one without; both dated 12/04/2023
TableA ==
  << SubSeq(HEADERS, 1, 10),
     << T1204yy, <<"E1", " ">>, Txt("C7"), Txt("THEFT"), <<>>, <<>>, <<>>, <<>>,
        Txt("LOT 2"), Txt("Open") >>,
     << T1204time, <<>>, <<>>, Txt("VANDALISM"), <<>>, <<>>, <<>>, <<>>,
        Txt("LOT 3"), Txt("Closed") >> >>

\* the table of the second: a two-cell row without a date, an empty row, a
\* twelve-cell row with the same Event # whose only date is Date From 12/5/23
TableB ==
  << << Txt("n/a"), Txt("E2") >>,
     << >>,
     << NoneCell, Txt("E2"), <<>>, Txt("BURGLARY"), <<>>, <<>>, T125yy, <<>>,
        <<>>, <<>>, Txt("x"), Txt("y") >> >>

\* the texts a cell of a record of the model can hold
CellTexts ==
  {<<>>}
    \cup UNION {{r[i] : i \in DOMAIN r} : r \in ArchiveRowSamples}
    \cup UNION {{Strip(IF r[i] = NoneCell THEN <<>> ELSE r[i]) : i \in DOMAIN r} :
                  r \in {TableA[k] : k \in DOMAIN TableA}
                          \cup {TableB[k] : k \in DOMAIN TableB}}

\* parse_any_date_field on each of these texts, evaluated once
DateOf == [t \in CellTexts |-> parse_any_date_field(t)]

DateField(row, idx) ==
  IF idx < Len(row) THEN DateOf[row[idx + 1]] ELSE NoDate

\* the first of Date Reported, Date From, Date To that parses
best_row_date(row) ==
  FirstDate(DateField(row, IDX_DATE_REPORTED), DateField(row, IDX_DATE_FROM),
            DateField(row, IDX_DATE_TO))

\* ------------------------------------------------------------ the archive
\* A file is [exists, rows]: whether it exists and, for the CSV file, the rows
\* csv.reader yields (header first), for the JSON file the list of objects.
Absent == [exists |-> FALSE, rows |-> <<>>]

File(rows) == [exists |-> TRUE, rows |-> rows]

Range(s) == {s[i] : i \in DOMAIN s}

\* the Event # of a row as backfill_incremental and load_existing_csv read it
EventOf(row) == IF Len(row) > IDX_EVENT THEN row[IDX_EVENT + 1] ELSE <<>>

\* "if d and (latest is None or d > latest): latest = d"
Later(d, latest) ==
  IF d # NoDate /\ (latest = NoDate \/ DateLT(latest, d)) THEN d ELSE latest

RECURSIVE MaxDate(_, _)
\* the running maximum "latest" of load_existing_csv over rows
MaxDate(rows, latest) ==
  IF rows = <<>> THEN latest
  ELSE MaxDate(Tail(rows), Later(best_row_date(Head(rows)), latest))

\* load_existing_csv on the CSV file: <<rows, event_ids, latest_date>>
load_existing_csv(file) ==
  IF ~file.exists THEN << <<>>, {}, NoDate >>
  ELSE LET body == IF file.rows = <<>> THEN <<>> ELSE Tail(file.rows)
           rows == SelectSeq(body, LAMBDA r : r # <<>>)
           ids == {EventOf(rows[i]) : i \in DOMAIN rows} \ {<<>>}
       IN << rows, ids, MaxDate(rows, NoDate) >>

RECURSIVE daterange(_, _)
\* the inclusive list of days from start to end
daterange(start, end) ==
  IF DateLE(start, end) THEN <<start>> \o daterange(NextDay(start), end)
  ELSE <<>>

\* ------------------------------------------------------------- the fetcher
\* a response body: a PDF with its pages, or bytes pdfplumber cannot open
Pdf(pages) == [pdf |-> TRUE, pages |-> pages]
Malformed == [pdf |-> FALSE, pages |-> <<>>]

normalize_row(cells, url) ==
  LET cleaned == [i \in DOMAIN cells |->
                    Strip(IF cells[i] = NoneCell THEN <<>> ELSE cells[i])]
      target == Len(HEADERS) - 1
      cut == IF Len(cleaned) > target THEN SubSeq(cleaned, 1, target) ELSE cleaned
      padded == cut \o [i \in 1..(target - Len(cut)) |-> <<>>]
  IN Append(padded, url)

\* any("Date Reported" in (cell or "") for cell in row)
HasHeaderMarker(row) ==
  \E i \in DOMAIN row :
    row[i] # NoneCell /\ \E k \in DOMAIN row[i] : row[i][k] = "Date Reported"

\* the rows one page contributes; a page is its extracted table, <<>> if none
PageRows(table, url) ==
  IF table = <<>> THEN <<>>
  ELSE LET start_idx == IF table[1] # <<>> /\ HasHeaderMarker(table[1])
                        THEN 1 ELSE 0
           raws == SelectSeq(SubSeq(table, start_idx + 1, Len(table)),
                             LAMBDA raw : raw # <<>>)
       IN [i \in DOMAIN raws |-> normalize_row(raws[i], url)]

RECURSIVE PdfRows(_, _)
PdfRows(pages, url) ==
  IF pages = <<>> THEN <<>>
  ELSE PageRows(Head(pages), url) \o PdfRows(Tail(pages), url)

\* what a call hands back: rows, or an exception leaving it
Returned(rows) == [raised |-> FALSE, rows |-> rows]
Raised == [raised |-> TRUE, rows |-> <<>>]

\* the try block of fetch_and_parse for the outcome r of requests.get,
\* r = [raised, status_code, content]
FetchBody(d, r) ==
  IF r.raised THEN Raised
  ELSE IF r.status_code # 200 THEN Returned(<<>>)
  ELSE IF ~r.content.pdf THEN Raised
  ELSE Returned(PdfRows(r.content.pages, Url(d)))

\* a fetch_and_parse that lets the exceptions of its body through
fetch_and_parseUnguarded(d, r) == FetchBody(d, r)

\* fetch_and_parse(d): "except Exception: return d, []"
fetch_and_parse(d, r) ==
  IF FetchBody(d, r).raised THEN Returned(<<>>) ELSE FetchBody(d, r)

\* ------------------------------------------------------------- the writers
\* write_csv: the file after the write
CsvOf(all_rows) == File(<<HEADERS>> \o all_rows)

HeaderIndex(h) == CHOOSE i \in DOMAIN HEADERS : HEADERS[i] = h

\* write_json: one object per row, keyed by header, short rows padded with ""
JsonOf(all_rows) ==
  File(
  [k \in DOMAIN all_rows |->
     [h \in Range(HEADERS) |->
        IF HeaderIndex(h) <= Len(all_rows[k]) THEN all_rows[k][HeaderIndex(h)]
        ELSE <<>>]])

\* ------------------------------------------------------------ reconciling
RECURSIVE DedupLoop(_, _, _)
\* the loop of backfill_incremental over all_new_rows with its seen set
DedupLoop(rows, seen, acc) ==
  IF rows = <<>> THEN acc
  ELSE LET row == Head(rows)
           ev == EventOf(row)
       IN IF ev # <<>> /\ ev \in seen THEN DedupLoop(Tail(rows), seen, acc)
          ELSE DedupLoop(Tail(rows),
                         IF ev # <<>> THEN seen \cup {ev} ELSE seen,
                         Append(acc, row))

\* a deduplication that never adds an accepted Event # to the seen set
DedupAgainstArchiveOnly(rows, event_ids) ==
  SelectSeq(rows, LAMBDA row : EventOf(row) = <<>> \/ EventOf(row) \notin event_ids)

Dedup(rows, event_ids) == DedupLoop(rows, event_ids, <<>>)

\* row_dt: the sort key of a new row
row_dt(r, today_dt) == FirstDate(best_row_date(r), today_dt, today_dt)

\* the rows in descending order of their keys, rows of equal key in their
\* original order; keys[i] is the key of rows[i]
StableDescending(rows, keys) ==
  LET place(i) ==
        Cardinality({j \in DOMAIN rows : DateLT(keys[i], keys[j])})
          + Cardinality({j \in 1..i : keys[j] = keys[i]})
  IN [p \in DOMAIN rows |-> rows[CHOOSE i \in DOMAIN rows : place(i) = p]]

\* a sort without reverse=True: oldest first
SortOldestFirst(rows, today_dt) ==
  LET newest == StableDescending(rows, [i \in DOMAIN rows |->
                                          row_dt(rows[i], today_dt)])
  IN [p \in DOMAIN rows |-> newest[Len(rows) + 1 - p]]

\* a merge that leaves the new rows in arrival order
NoSort(rows, today_dt) == rows

\* list.sort(key=row_dt, reverse=True): stable, newest first
SortNewestFirst(rows, today_dt) ==
  StableDescending(rows, [i \in DOMAIN rows |-> row_dt(rows[i], today_dt)])

\* ---------------------------------------------------- documents and days
DocSamples == { Pdf(<<TableA>>), Pdf(<< <<>>, TableB >>) }

\* the days a document may be published for
Days == {PlusDays(EARLIEST_DATE, k) : k \in 0..MaxAhead}

RECURSIVE SeqsUpTo(_, _)
\* the sequences over S of length at most n
SeqsUpTo(S, n) ==
  IF n = 0 THEN {<<>>}
  ELSE LET shorter == SeqsUpTo(S, n - 1)
       IN shorter \cup {Append(q, x) : q \in shorter, x \in S}

\* ------------------------------------------------------------------- state
VARIABLES
  csv,                 \* CSV_FILE
  json,                \* JSON_FILE
  today,               \* datetime.today().date()
  docs,                \* the document the server holds for each day
  pc,                  \* where backfill_incremental stands
  run,                 \* the number of the run
  existing_rows, existing_event_ids, latest_found,
  dates,               \* the days to check
  pending,             \* the futures not yet completed
  all_new_rows, unique_new_rows, combined,
  results,             \* history: what each completed future returned
  failed,              \* history: the days whose fetch failed in this run
  log,                 \* history: the file and pool operations of this run
  start0,              \* history: the files when this run began
  hist                 \* history: one summary per finished earlier run

vars ==
  << csv, json, today, docs, pc, run, existing_rows, existing_event_ids,
     latest_found, dates, pending, all_new_rows, unique_new_rows, combined,
     results, failed, log, start0, hist >>

files == <<csv, json>>
world == <<today, docs, run, hist, start0>>
loaded == <<existing_rows, existing_event_ids, latest_found>>
fetching == <<dates, pending, all_new_rows, results, failed>>

Init ==
  /\ \E rows \in SeqsUpTo(ArchiveRowSamples, MaxArchive) :
       \/ csv = Absent /\ json = Absent /\ rows = <<>>
       \/ csv = CsvOf(rows) /\ json = JsonOf(load_existing_csv(CsvOf(rows))[1])
  /\ today \in Days
  /\ docs \in [Days -> DocSamples]
  /\ pc = "start"
  /\ run = 1
  /\ existing_rows = <<>> /\ existing_event_ids = {} /\ latest_found = NoDate
  /\ dates = <<>> /\ pending = {}
  /\ all_new_rows = <<>> /\ unique_new_rows = <<>> /\ combined = <<>>
  /\ results = <<>> /\ failed = {}
  /\ log = <<>>
  /\ start0 = <<csv, json>>
  /\ hist = <<>>

\* a start that writes the header whether or not the file exists
StartAlwaysWritesHeader ==
  /\ pc = "start"
  /\ csv' = File(<<HEADERS>>) /\ log' = Append(log, "write_csv_header")
  /\ pc' = "load"
  /\ UNCHANGED <<json, world, loaded, fetching, unique_new_rows, combined>>

\* lines 199-206: create the CSV file with its header when it does not exist
Start ==
  /\ pc = "start"
  /\ IF csv.exists
     THEN UNCHANGED <<csv, log>>
     ELSE csv' = File(<<HEADERS>>) /\ log' = Append(log, "write_csv_header")
  /\ pc' = "load"
  /\ UNCHANGED <<json, world, loaded, fetching, unique_new_rows, combined>>

\* a window that starts on the latest day itself
StartDateSameDay(latest) == IF latest # NoDate THEN latest ELSE EARLIEST_DATE

\* lines 213-216: the first day to check
StartDate(latest) ==
  IF latest # NoDate THEN NextDay(latest) ELSE EARLIEST_DATE

\* lines 208-228: load, compute the window, submit one task per day
Load ==
  /\ pc = "load"
  /\ LET got == load_existing_csv(csv)
         start_date == StartDate(got[3])
     IN /\ existing_rows' = got[1]
        /\ existing_event_ids' = got[2]
        /\ latest_found' = got[3]
        /\ IF DateLT(today, start_date)
           THEN /\ pc' = "done"
                /\ log' = Append(log, "read_csv")
                /\ UNCHANGED <<dates, pending>>
           ELSE /\ dates' = daterange(start_date, today)
                /\ pending' = Range(dates')
                /\ log' = log \o <<"read_csv", "submit">>
                /\ pc' = "fetch"
  /\ UNCHANGED <<files, world, all_new_rows, results, failed,
                 unique_new_rows, combined>>

\* what requests.get may answer for day d
Responses(d) ==
  { [raised |-> TRUE, status_code |-> 0, content |-> Malformed],
    [raised |-> FALSE, status_code |-> 404, content |-> Malformed],
    [raised |-> FALSE, status_code |-> 200, content |-> Malformed] }
  \cup (IF d \in Days
        THEN {[raised |-> FALSE, status_code |-> 200, content |-> docs[d]]}
        ELSE {})

\* whether the answer r is a failure of the fetch or of the parse
IsFailure(r) == r.raised \/ r.status_code # 200 \/ ~r.content.pdf

\* lines 229-232: the next future completes (any pending one) and its
\* result is collected; an exception of the task leaves future.result()
Fetch(d, r) ==
  /\ pc = "fetch"
  /\ d \in pending
  /\ LET res == fetch_and_parse(d, r)
     IN IF res.raised
        THEN /\ pc' = "aborted"
             /\ log' = Append(log, "task_raised")
             /\ UNCHANGED fetching
        ELSE /\ pending' = pending \ {d}
             /\ all_new_rows' = IF res.rows # <<>> THEN all_new_rows \o res.rows
                                ELSE all_new_rows
             /\ results' = Append(results, [day |-> d, rows |-> res.rows])
             /\ failed' = IF IsFailure(r) THEN failed \cup {d} ELSE failed
             /\ IF pending' = {}
                THEN pc' = "dedup" /\ log' = Append(log, "join")
                ELSE pc' = "fetch" /\ UNCHANGED log
             /\ UNCHANGED dates
  /\ UNCHANGED <<files, world, loaded, unique_new_rows, combined>>

\* lines 234-251
Deduplicate ==
  /\ pc = "dedup"
  /\ IF all_new_rows = <<>>
     THEN pc' = "done" /\ UNCHANGED unique_new_rows
     ELSE /\ unique_new_rows' = Dedup(all_new_rows, existing_event_ids)
          /\ pc' = IF unique_new_rows' = <<>> THEN "done" ELSE "sort"
  /\ UNCHANGED <<files, world, loaded, fetching, combined, log>>

\* lines 253-261
SortAndMerge ==
  /\ pc = "sort"
  /\ unique_new_rows' = SortNewestFirst(unique_new_rows, today)
  /\ combined' = unique_new_rows' \o existing_rows
  /\ pc' = "write_csv"
  /\ UNCHANGED <<files, world, loaded, fetching, log>>

\* line 264
WriteCsv ==
  /\ pc = "write_csv"
  /\ csv' = CsvOf(combined)
  /\ log' = Append(log, "write_csv")
  /\ pc' = "write_json"
  /\ UNCHANGED <<json, world, loaded, fetching, unique_new_rows, combined>>

\* line 264, CSV_FILE.open("w") raising OSError
WriteCsvFails ==
  /\ pc = "write_csv"
  /\ log' = Append(log, "write_csv_failed")
  /\ pc' = "aborted"
  /\ UNCHANGED <<files, world, loaded, fetching, unique_new_rows, combined>>

\* line 265
WriteJson ==
  /\ pc = "write_json"
  /\ json' = JsonOf(combined)
  /\ log' = Append(log, "write_json")
  /\ pc' = "done"
  /\ UNCHANGED <<csv, world, loaded, fetching, unique_new_rows, combined>>

\* line 265, JSON_FILE.open("w") raising OSError
WriteJsonFails ==
  /\ pc = "write_json"
  /\ log' = Append(log, "write_json_failed")
  /\ pc' = "aborted"
  /\ UNCHANGED <<files, world, loaded, fetching, unique_new_rows, combined>>

\* the script is started again once a run has ended normally
NextRun ==
  /\ pc = "done"
  /\ run < MaxRuns
  /\ run' = run + 1
  /\ hist' = Append(hist, [csv |-> csv, json |-> json, failed |-> failed,
                           results |-> results, log |-> log, dates |-> dates])
  /\ start0' = <<csv, json>>
  /\ pc' = "start"
  /\ existing_rows' = <<>> /\ existing_event_ids' = {} /\ latest_found' = NoDate
  /\ dates' = <<>> /\ pending' = {}
  /\ all_new_rows' = <<>> /\ unique_new_rows' = <<>> /\ combined' = <<>>
  /\ results' = <<>> /\ failed' = {}
  /\ log' = <<>>
  /\ UNCHANGED <<files, today, docs>>

Completes == \E d \in pending : \E r \in Responses(d) : Fetch(d, r)

\* one run of backfill_incremental
Next ==
  \/ Start
  \/ Load
  \/ Completes
  \/ Deduplicate
  \/ SortAndMerge
  \/ WriteCsv
  \/ WriteCsvFails
  \/ WriteJson
  \/ WriteJsonFails

Spec == Init /\ [][Next]_vars

\* runs of backfill_incremental one after the other
NextRuns == Next \/ NextRun

SpecRuns == Init /\ [][NextRuns]_vars

\* ================================================================= claims
\* the records of an archive file: its non-blank rows after the header
Records(file) ==
  IF file.exists /\ file.rows # <<>>
  THEN SelectSeq(Tail(file.rows), LAMBDA r : r # <<>>) ELSE <<>>

\* whether the operation e happened in this run
Did(e) == \E i \in DOMAIN log : log[i] = e

Count(e) == Cardinality({i \in DOMAIN log : log[i] = e})

\* the elements of s at the positions K, in order
At(s, K) ==
  [k \in 1..Cardinality(K) |->
     s[CHOOSE i \in K : Cardinality({j \in K : j <= i}) = k]]

\* s and t hold the same elements the same number of times
SameBag(s, t) ==
  /\ Len(s) = Len(t)
  /\ \A x \in Range(s) \cup Range(t) :
       Cardinality({i \in DOMAIN s : s[i] = x})
         = Cardinality({i \in DOMAIN t : t[i] = x})

\* the representative date of a record: the first of Date Reported,
\* Date From, Date To that parses, NoDate when none does
Representative(row) ==
  LET field(k) == IF k <= Len(row) THEN DateOf[row[k]] ELSE NoDate
      parsing == {k \in {1, 7, 8} : field(k) # NoDate}
  IN IF parsing = {} THEN NoDate
     ELSE field(CHOOSE k \in parsing : \A j \in parsing : k <= j)

\* the deduplicate step has just run over all_new_rows
Deduplicated ==
  \/ pc = "sort"
  \/ pc = "done" /\ Did("join") /\ all_new_rows # <<>> /\ ~Did("write_csv")

\* the Event # values of the records of the archive as it was loaded
ArchiveEventIds ==
  {r[2] : r \in {q \in Range(Records(csv)) : Len(q) >= 2}} \ {<<>>}

\* C1: after the deduplicate step, a fetched record (in arrival order) was
\* dropped if and only if its Event # is non-empty and is the Event # of a
\* record of the loaded archive or of a fetched record accepted earlier in
\* the pass; so every fetched record with an empty Event # survives.
C1_DedupDropsExactlySeen ==
  Deduplicated =>
    LET n == Len(all_new_rows)
        ev(i) == all_new_rows[i][2]
    IN /\ \E K \in SUBSET (1..n) :
            /\ \A i \in 1..n :
                 (i \notin K) <=>
                   /\ ev(i) # <<>>
                   /\ \/ ev(i) \in ArchiveEventIds
                      \/ \E j \in K : j < i /\ ev(j) = ev(i)
            /\ unique_new_rows = At(all_new_rows, K)
       /\ At(all_new_rows, {i \in 1..n : ev(i) = <<>>})
            = At(unique_new_rows,
                 {i \in DOMAIN unique_new_rows : unique_new_rows[i][2] = <<>>})
       /\ \A i, j \in DOMAIN unique_new_rows :
            i # j /\ unique_new_rows[i][2] # <<>>
              => unique_new_rows[i][2] # unique_new_rows[j][2]

\* C1 witness: a pass that dropped one record for an Event # of the archive
\* and another for an Event # an earlier fetched record brought, and kept a
\* record without Event #
C1_Witness ==
  /\ pc = "sort"
  /\ Len(unique_new_rows) + 2 <= Len(all_new_rows)
  /\ \E i \in DOMAIN all_new_rows : all_new_rows[i][2] \in ArchiveEventIds
  /\ \E i, j \in DOMAIN all_new_rows :
       /\ i < j
       /\ all_new_rows[i][2] # <<>>
       /\ all_new_rows[i][2] = all_new_rows[j][2]
       /\ all_new_rows[i][2] \notin ArchiveEventIds
  /\ \E i \in DOMAIN unique_new_rows : unique_new_rows[i][2] = <<>>

ArchiveEventIdsAtStart ==
  {r[2] : r \in {q \in Range(Records(start0[1])) : Len(q) >= 2}} \ {<<>>}

\* the sort key the claim gives a record with no parseable date: today
KeyDate(row) == IF Representative(row) = NoDate THEN today ELSE Representative(row)

\* C2: once a run has written the CSV file, the file is the header, then the
\* accepted new records in descending representative-date order (no date
\* counting as today), then the records the archive held when the run
\* began, all of them, unmodified and in their original order.
C2_NewBlockThenArchive ==
  Did("write_csv") =>
    LET old == Records(start0[1])
        n == Len(csv.rows) - 1 - Len(old)
        new == SubSeq(csv.rows, 2, n + 1)
        key == [i \in 1..n |-> KeyDate(new[i])]
    IN /\ n >= 1
       /\ csv.rows[1] = HEADERS
       /\ SubSeq(csv.rows, n + 2, Len(csv.rows)) = old
       /\ SameBag(new, Dedup(all_new_rows, ArchiveEventIdsAtStart))
       /\ \A i, j \in 1..n : i < j => DateLE(key[j], key[i])

\* C2 witness: a written archive with two old records behind at least two
\* new ones that the sort had to reorder
C2_Witness ==
  /\ pc = "done"
  /\ Did("write_json")
  /\ Len(Records(start0[1])) >= 2
  /\ Len(unique_new_rows) >= 2
  /\ unique_new_rows # Dedup(all_new_rows, existing_event_ids)
  /\ csv.rows = <<HEADERS>> \o unique_new_rows \o Records(start0[1])

RECURSIVE Flatten(_)
\* the rows of a list of per-day results, one result after the other
Flatten(rs) == IF rs = <<>> THEN <<>> ELSE Head(rs).rows \o Flatten(Tail(rs))

\* what the task of day d returned
ResultOf(d) ==
  Flatten(SelectSeq(results, LAMBDA x : x.day = d))

RECURSIVE InDateOrder(_)
\* the fetched rows had the tasks completed in the order of their days
InDateOrder(ds) ==
  IF ds = <<>> THEN <<>> ELSE ResultOf(Head(ds)) \o InDateOrder(Tail(ds))

\* the file the run writes when the tasks complete in the order of their days
CsvInDateOrder ==
  CsvOf(SortNewestFirst(Dedup(InDateOrder(dates), existing_event_ids), today)
          \o existing_rows)

\* C4 as stated: whatever the completion order, the written CSV file is the
\* one written when the tasks complete in the order of their days.
C4_AnyOrderSameFile == Did("write_csv") => csv = CsvInDateOrder

\* no two records fetched for different days share a non-empty Event # or a
\* representative date (no date counting as today)
NoClashAcrossDays ==
  LET key == [i \in DOMAIN results |->
                [k \in DOMAIN results[i].rows |-> KeyDate(results[i].rows[k])]]
  IN \A i, j \in DOMAIN results :
       i # j =>
         \A k \in DOMAIN results[i].rows, l \in DOMAIN results[j].rows :
           /\ results[i].rows[k][2] = <<>>
                \/ results[i].rows[k][2] # results[j].rows[l][2]
           /\ key[i][k] # key[j][l]

\* C4 amended: the completion order cannot change the written file when no
\* two records fetched for different days share a non-empty Event # or a
\* representative date.
C4_AnyOrderSameFileUnlessClash ==
  Did("write_csv") /\ NoClashAcrossDays => csv = CsvInDateOrder

\* C4 witness: two days both brought records, the later day completed
\* first, nothing clashes, and the file was written
C4_Witness ==
  /\ Did("write_csv")
  /\ NoClashAcrossDays
  /\ Len(results) >= 2
  /\ results[1].rows # <<>> /\ results[2].rows # <<>>
  /\ DateLT(results[2].day, results[1].day)

FileWrites == {"write_csv_header", "write_csv", "write_json"}

\* the archive is read exactly once, before the tasks are submitted
ReadOnceBeforeFetch ==
  /\ Count("read_csv") <= 1
  /\ pc \notin {"start", "load"} => Count("read_csv") = 1
  /\ \A i \in DOMAIN log :
       log[i] = "submit" => \E j \in 1..(i - 1) : log[j] = "read_csv"

Calendar ==
  {d \in {2023} \X {11, 12} \X (1..31) : MkDate(d[1], d[2], d[3]) # NoDate}

\* C9: the days fetched are exactly those after the latest representative
\* date of the loaded records up to today, each once; from EARLIEST_DATE
\* when the archive is empty (or none of its records has a date); and when
\* no day is left the run ends at once with no fetch and no change to the
\* files.
C9_WindowIsLatestPlusOneToToday ==
  pc \notin {"start", "load"} =>
    LET recs == Records(start0[1])
        reps == {Representative(recs[i]) : i \in DOMAIN recs} \ {NoDate}
        latest == CHOOSE d \in reps : \A e \in reps : DateLE(e, d)
        window ==
          IF reps # {}
          THEN {d \in Calendar : DateLT(latest, d) /\ DateLE(d, today)}
          ELSE {d \in Calendar : DateLE(EARLIEST_DATE, d) /\ DateLE(d, today)}
        fetched == {results[i].day : i \in DOMAIN results}
    IN /\ Range(dates) = window
       /\ Len(dates) = Cardinality(window)
       /\ fetched \cup pending = window
       /\ Len(results) = Cardinality(fetched)
       /\ fetched \cap pending = {}
       /\ window = {} =>
            pc = "done" /\ log = <<"read_csv">> /\ <<csv, json>> = start0

\* C9 witness: all tasks of a window of two or more days, computed from a
\* dated archive, have completed
C9_Witness ==
  /\ pc = "dedup"
  /\ latest_found # NoDate
  /\ Len(dates) >= 2
  /\ Len(results) = Len(dates)

\* C10: a day whose fetch or parse failed contributes no record and never
\* aborts the run: all that the tasks returned is collected; when some
\* record survives deduplication both files are written, and otherwise
\* (so when every day failed) the run ends normally and leaves the archive
\* as it found it, header only when it started empty.
C10_FetchFailureIsolated ==
  /\ \A i \in DOMAIN results :
       results[i].day \in failed => results[i].rows = <<>>
  /\ pc = "aborted" =>
       log[Len(log)] \in {"write_csv_failed", "write_json_failed"}
  /\ all_new_rows = Flatten(results)
  /\ pc = "done" /\ Did("join") =>
       IF Dedup(Flatten(results), ArchiveEventIdsAtStart) # <<>>
       THEN /\ Did("write_csv") /\ Did("write_json")
            /\ \A i \in DOMAIN results :
                 results[i].day \notin failed =>
                   \A r \in Range(results[i].rows) :
                     r[2] = <<>> => r \in Range(csv.rows)
       ELSE /\ ~Did("write_csv") /\ ~Did("write_json")
            /\ Records(csv) = Records(start0[1])
            /\ json = start0[2]
  /\ pc \in {"dedup", "sort", "write_csv", "write_json", "done"}
       /\ Did("join") /\ failed = Range(dates) => all_new_rows = <<>>

\* C10 witness: a run ended normally in which one day failed and the
\* records of another were written
C10_Witness ==
  /\ pc = "done"
  /\ failed # {}
  /\ Did("write_json")
  /\ Len(csv.rows) > 1 + Len(Records(start0[1]))

\* the second run got, for every day both runs fetched, the answer the
\* first run got
SameAnswers ==
  \A i \in DOMAIN results, k \in DOMAIN hist[1].results :
    results[i].day = hist[1].results[k].day =>
      /\ results[i].rows = hist[1].results[k].rows
      /\ results[i].day \in failed <=> results[i].day \in hist[1].failed

\* C3: with the same answers from the server on the same day, a second run
\* accepts no record, writes nothing and leaves both files as the first run
\* left them.
C3_SecondRunChangesNothing ==
  run = 2 /\ SameAnswers =>
    /\ pc \notin {"sort", "write_csv", "write_json"}
    /\ \A i \in DOMAIN log : log[i] \notin FileWrites
    /\ csv = hist[1].csv
    /\ json = hist[1].json

\* C5: every day whose fetch failed in a run is in the window of the next.
C5_FailedDayInNextWindow ==
  run >= 2 /\ pc \notin {"start", "load"} =>
    hist[run - 1].failed \subseteq Range(dates)

\* field i of a row (empty when the row is shorter) and of a JSON object
\* (empty when the object has no such key)
CsvField(row, i) == IF i <= Len(row) THEN row[i] ELSE <<>>
JsonField(obj, i) == IF i <= Len(HEADERS) THEN obj[HEADERS[i]] ELSE <<>>

Max(a, b) == IF a >= b THEN a ELSE b

\* both files exist and hold the same records, in the same order, with the
\* same fields
FormsAgree ==
  /\ csv.exists /\ json.exists
  /\ Len(json.rows) = Len(Records(csv))
  /\ \A k \in DOMAIN json.rows :
       \A i \in 1..Max(Len(Records(csv)[k]), Len(HEADERS)) :
         CsvField(Records(csv)[k], i) = JsonField(json.rows[k], i)

\* C6: when a run that wrote a file has ended normally, the CSV file and the
\* JSON file hold the same records in the same order, field for field.
C6_FormsAgreeAfterWrite ==
  pc = "done" /\ (\E i \in DOMAIN log : log[i] \in FileWrites) => FormsAgree

\* C7: a run aborted by a failing write has replaced both files or neither.
C7_BothFilesOrNeither ==
  pc = "aborted" => (Did("write_csv") <=> Did("write_json"))

====
